---- MODULE Spec2Model ----
(***************************************************************************)
(* Master liveness tracking and the deactivation cascade of                *)
(* master/buildbot/data/masters.py (class Master), as a state machine.     *)
(*                                                                         *)
(* Every `yield` of an inlineCallbacks method is a point where another     *)
(* caller (another coroutine of the same reactor, or another master        *)
(* process working on the same database) may run, so every store call is   *)
(* one atomic step of a caller and the code between two yields is folded   *)
(* into the step of the yield before it.                                   *)
(***************************************************************************)
EXTENDS Integers, Sequences, FiniteSets, TLC

\* ------------------------------------------------------------------ bounds
MaxBuilds == 3       \* build rows
MaxSteps == 3        \* step rows
MaxLogs == 3         \* log rows
MaxRequests == 3     \* build request rows
MaxTicks == 2        \* clock advances
LastSeen == 1        \* last_active of a master that checked in before the start
MaxFailures == 2     \* store calls that raise
MaxDebugCalls == 4   \* calls of the methods of DebugServices

\* ------------------------------------------------------- program constants
EXPIRE_MINUTES == 10
RETRY == "RETRY"
SUCCESS == "SUCCESS"
NoResult == "None"       \* results column of a step or build still running
None == 0 - 1            \* Python None in an integer-valued column

Callers == {"c1", "c2"}  \* concurrent callers of the update methods
\* update-method calls started in one behaviour: one by each caller at the
\* same time, or as many in a row
MaxOps == Cardinality(Callers)

MasterIds == {1, 2}      \* the masters A and B
NumMasters == Cardinality(MasterIds)
BuildIds == 1..MaxBuilds
RequestIds == 1..MaxRequests
MasterName(m) == IF m = 1 THEN "A" ELSE "B"

\* The rows' parents are fixed: builds alternate between the masters, steps
\* come in pairs per build, logs in pairs per step, so that there are builds
\* with two steps and with none, and steps with two logs and with none.
BuildMaster(b) == ((b - 1) % NumMasters) + 1
StepBuild(s) == (s + 1) \div 2
LogStep(l) == (l + 1) \div 2
StepIds == {s \in 1..MaxSteps : StepBuild(s) \in BuildIds}
LogIds == {l \in 1..MaxLogs : LogStep(l) \in StepIds}
\* a request is claimed by master 1, by master 2, ..., or by none
RequestClaim(r) == IF r % (NumMasters + 1) = 0 THEN None ELSE r % (NumMasters + 1)

VARIABLES
    masters,        \* masterid -> [name, active, last_active]
    builds,         \* buildid -> [masterid, complete, results]
    steps,          \* stepid -> [buildid, results, hidden]
    logs,           \* logid -> [stepid, complete]
    buildrequests,  \* brid -> [claimed, complete]
    now,            \* reactor.seconds()
    events,         \* what produceEvent has published, in order
    pc,             \* caller -> the yield it is suspended at
    loc,            \* caller -> the local variables of its running method
    calls,          \* caller -> the calls its running method has issued
    ghost,          \* bookkeeping for the properties, never read by the code
    debug           \* the DebugServices object of process/debug.py

vars == <<masters, builds, steps, logs, buildrequests, now, events, pc, loc, calls, ghost,
          debug>>
masterVars == <<masters, builds, steps, logs, buildrequests, now, events, pc, loc, calls, ghost>>
store == <<builds, steps, logs, buildrequests>>


\* ------------------------------------------------------------------ helpers
RECURSIVE SeqOf(_)
\* the rows of a query result, in id order
SeqOf(S) == IF S = {} THEN <<>>
            ELSE LET x == CHOOSE y \in S : \A z \in S : y <= z
                 IN <<x>> \o SeqOf(S \ {x})
Range(q) == {q[i] : i \in 1..Len(q)}

\* ------------------------------------------------------------- store layer
\* db.masters.setMasterState: an atomic conditional update that reports
\* whether the row changed; an unknown id changes nothing.
setMasterStateChanged(ms, masterid, active) ==
    masterid \in DOMAIN ms /\ ms[masterid].active # active
setMasterStateStore(ms, masterid, active, t) ==
    IF masterid \notin DOMAIN ms THEN ms
    ELSE IF active
         THEN [ms EXCEPT ![masterid].active = TRUE, ![masterid].last_active = t]
         ELSE [ms EXCEPT ![masterid].active = FALSE]
\* db.masters.getMasters: the rows as the scan sees them
getMasters(ms) ==
    [i \in 1..Cardinality(DOMAIN ms) |->
        LET m == SeqOf(DOMAIN ms)[i]
        IN [id |-> m, name |-> ms[m].name, last_active |-> ms[m].last_active]]
finishLog(ls, logid) == [ls EXCEPT ![logid].complete = TRUE]
finishStep(ss, stepid, results, hidden) ==
    [ss EXCEPT ![stepid].results = results, ![stepid].hidden = hidden]
finishBuild(bs, buildid, results) ==
    [bs EXCEPT ![buildid].complete = TRUE, ![buildid].results = results]
unclaimBuildRequests(brs, brids) ==
    [r \in DOMAIN brs |-> IF r \in brids THEN [brs[r] EXCEPT !.claimed = None] ELSE brs[r]]

\* ------------------------------------------------- the queries of the cascade
BuildsQuery_AnyState(bs, masterid) ==
    SeqOf({b \in DOMAIN bs : bs[b].masterid = masterid})
BuildsQuery_WithOpenSteps(bs, masterid) ==
    SeqOf({b \in DOMAIN bs :
            /\ bs[b].masterid = masterid /\ bs[b].complete = FALSE
            /\ \E s \in DOMAIN steps : steps[s].buildid = b /\ steps[s].results = NoResult})
\* data.get(('builds',), filters=[masterid eq, complete eq False])
BuildsQuery(bs, masterid) ==
    SeqOf({b \in DOMAIN bs : bs[b].masterid = masterid /\ bs[b].complete = FALSE})
\* data.get(('builds', buildid, 'steps'), filters=[results eq None])
StepsQuery(ss, buildid) ==
    SeqOf({s \in DOMAIN ss : ss[s].buildid = buildid /\ ss[s].results = NoResult})
\* data.get(('steps', stepid, 'logs'), filters=[complete eq False])
LogsQuery(ls, stepid) ==
    SeqOf({l \in DOMAIN ls : ls[l].stepid = stepid /\ ls[l].complete = FALSE})
RequestsQuery_AnyClaim(brs, masterid) ==
    {r \in DOMAIN brs : brs[r].complete = FALSE /\ brs[r].claimed # None}
\* db.buildrequests.getBuildRequests(complete=False, claimed=masterid)
RequestsQuery(brs, masterid) ==
    {r \in DOMAIN brs : brs[r].complete = FALSE /\ brs[r].claimed = masterid}


\* --------------------------------------------------- decisions of the code
\* expireMasters: too_old = epoch2datetime(reactor.seconds() - 60 * EXPIRE_MINUTES)
TooOld(t) == t - 60 * EXPIRE_MINUTES
IsExpired_Inclusive(last_active, too_old) ==
    ~(last_active # None /\ last_active > too_old)
\* expireMasters: the loop goes on to setMasterState unless
\* `m.last_active is not None and m.last_active >= too_old`
IsExpired(last_active, too_old) ==
    ~(last_active # None /\ last_active >= too_old)
ExpiredOf(mlist, too_old) ==
    SelectSeq(mlist, LAMBDA m : IsExpired(m.last_active, too_old))

MasterDeactivatedBody_EventFirst == <<"event", "housekeeping">>
\* _masterDeactivated: the housekeeping, then the 'stopped' event
MasterDeactivatedBody == <<"housekeeping", "event">>
ActiveBranch_Always(activated) == <<"event">>
ActiveBranch_Inverted(activated) == IF activated THEN <<>> ELSE <<"event">>
\* masterActive: `if activated: produceEvent(..., 'started')`
ActiveBranch(activated) == IF activated THEN <<"event">> ELSE <<>>
StoppedBranch_Always(deactivated) == <<"housekeeping", "event">>
\* masterStopped: `if deactivated: yield self._masterDeactivated(...)`
StoppedBranch(deactivated) == IF deactivated THEN MasterDeactivatedBody ELSE <<>>
ExpireBranch_Unchecked(deactivated, forceHouseKeeping) ==
    <<"housekeeping", "event">>
ExpireBranch_NoForce(deactivated, forceHouseKeeping) ==
    IF deactivated THEN <<"housekeeping", "event">> ELSE <<>>
ExpireBranch_ForcedEvent(deactivated, forceHouseKeeping) ==
    IF deactivated \/ forceHouseKeeping THEN <<"housekeeping", "event">> ELSE <<>>
\* expireMasters: `if deactivated: _masterDeactivated  elif forceHouseKeeping:
\* _masterDeactivatedHousekeeping`
ExpireBranch(deactivated, forceHouseKeeping) ==
    IF deactivated THEN MasterDeactivatedBody
    ELSE IF forceHouseKeeping THEN <<"housekeeping">>
    ELSE <<>>

HousekeepingStages_RequestsFirst ==
    <<"worker", "builder", "scheduler", "changesource", "buildrequests", "builds">>
\* _masterDeactivatedHousekeeping: the four observers, the builds, the requests
Observers == <<"worker", "builder", "scheduler", "changesource">>
HousekeepingStages == Observers \o <<"builds", "buildrequests">>
\* what the loops of the housekeeping do next
AfterGetBuilds(blist) == IF blist = <<>> THEN "stageDone" ELSE "getSteps"
AfterGetSteps(slist) == IF slist = <<>> THEN "finishBuild" ELSE "getLogs"
AfterGetLogs_SkipLogs(llist) == "finishStep"
AfterGetLogs(llist) == IF llist = <<>> THEN "finishStep" ELSE "finishLog"
AfterFinishLog(llist) == IF llist = <<>> THEN "finishStep" ELSE "finishLog"
AfterFinishStep(slist) == IF slist = <<>> THEN "finishBuild" ELSE "getLogs"
AfterFinishBuild(blist) == IF blist = <<>> THEN "stageDone" ELSE "getSteps"
\* finishStep(stepid, results=RETRY, hidden=False), finishBuild(buildid, results=RETRY)
StepResults == RETRY
StepHidden == FALSE
BuildResults == RETRY

\* ------------------------------------------------------------ control flow
IdleLoc ==
    [op |-> "none", masterid |-> None, name |-> "", force |-> FALSE,
     too_old |-> None, mlist |-> <<>>, todo |-> <<>>, stages |-> <<>>,
     blist |-> <<>>, slist |-> <<>>, llist |-> <<>>, brids |-> {},
     evt |-> "none", h |-> 0]

\* where a caller inside the housekeeping is suspended next
StagePc(l) ==
    IF l.stages = <<>> THEN "hkReturn"
    ELSE IF Head(l.stages) = "builds" THEN "getBuilds"
    ELSE IF Head(l.stages) = "buildrequests" THEN "getRequests"
    ELSE "notify"
\* a loop's next step, or the next stage when the loop is over
LoopPc(next, l) == IF next = "stageDone" THEN StagePc(l) ELSE next
\* where a caller is suspended once the call it made has returned
TodoPc(l) ==
    IF l.todo # <<>> THEN Head(l.todo)
    ELSE IF l.mlist # <<>> THEN "setState"
    ELSE "idle"
\* the locals once the method has returned
Settle(l) == IF TodoPc(l) = "idle" THEN IdleLoc ELSE l


\* -------------------------------------------------------------------- Init
\* A master that is active has checked in.  The rows of the store are
\* finished in id order up to a point: the builds up to doneBuilds are
\* complete, the steps up to doneSteps have results, the logs up to doneLogs
\* and the requests up to doneRequests are complete; a complete build has no
\* running step and a finished step no open log.
InitMasters ==
    {ms \in [MasterIds -> [name : {"A", "B"}, active : BOOLEAN,
                           last_active : {None, LastSeen}]] :
        \A m \in MasterIds :
            /\ ms[m].name = MasterName(m)
            /\ ms[m].active => ms[m].last_active # None}
InitBuilds(doneBuilds) ==
    [b \in BuildIds |->
        [masterid |-> BuildMaster(b), complete |-> b <= doneBuilds,
         results |-> IF b <= doneBuilds THEN SUCCESS ELSE NoResult]]
InitSteps(doneSteps) ==
    [s \in StepIds |->
        [buildid |-> StepBuild(s), hidden |-> FALSE,
         results |-> IF s <= doneSteps THEN SUCCESS ELSE NoResult]]
InitLogs(doneLogs) ==
    [l \in LogIds |-> [stepid |-> LogStep(l), complete |-> l <= doneLogs]]
InitRequests(doneRequests) ==
    [r \in RequestIds |-> [claimed |-> RequestClaim(r), complete |-> r <= doneRequests]]
Consistent(bs, ss, ls) ==
    /\ \A s \in DOMAIN ss : bs[ss[s].buildid].complete => ss[s].results # NoResult
    /\ \A l \in DOMAIN ls : ss[ls[l].stepid].results # NoResult => ls[l].complete

InitStore(doneBuilds, doneSteps, doneLogs, doneRequests) ==
    /\ builds = InitBuilds(doneBuilds)
    /\ steps = InitSteps(doneSteps)
    /\ logs = InitLogs(doneLogs)
    /\ buildrequests = InitRequests(doneRequests)
    /\ Consistent(builds, steps, logs)
\* DebugServices.__init__: no manhole, no child service; no method running
DebugInit ==
    [manhole |-> None, children |-> {}, pc |-> "idle", new |-> None,
     calls |-> 0, last |-> "none", old |-> None, did |-> <<>>]
InitRest(t) ==
    /\ debug = DebugInit
    /\ masters \in InitMasters
    /\ now = t
    /\ events = <<>>
    /\ pc = [c \in Callers |-> "idle"]
    /\ loc = [c \in Callers |-> IdleLoc]
    /\ calls = [c \in Callers |-> <<>>]
    /\ ghost = [ops |-> 0, ticks |-> 0, fails |-> 0, broken |-> {},
                transitions |-> [m \in MasterIds |-> 0],
                hist |-> <<>>, cascades |-> <<>>,
                pre |-> [c \in Callers |-> <<>>],
                evcalls |-> <<>>]
\* every store of the family
Init ==
    /\ \E doneBuilds \in 0..MaxBuilds, doneSteps \in 0..MaxSteps,
          doneLogs \in 0..MaxLogs, doneRequests \in 0..MaxRequests :
            InitStore(doneBuilds, doneSteps, doneLogs, doneRequests)
    /\ InitRest(60 * EXPIRE_MINUTES)
\* the store of the family in which nothing is finished
InitOpen ==
    /\ InitStore(0, 0, 0, 0)
    /\ InitRest(60 * EXPIRE_MINUTES)
\* one store of the family: every build is running, the first step and its
\* logs are finished, the other steps, logs and requests are open; the last
\* master is active; a master last seen at LastSeen has expired by one second
InitConc ==
    /\ InitStore(0, 1, 2, 0)
    /\ InitRest(60 * EXPIRE_MINUTES + LastSeen + 1)
    /\ masters[NumMasters].active

\* ------------------------------------------------------------ bookkeeping
\* the masters whose active column is False
Inactive(ms) == {m \in DOMAIN ms : ~ms[m].active}
HistRec(c, op, masterid) ==
    [caller |-> c, op |-> op, masterid |-> masterid,
     wasActive |-> masterid \in DOMAIN masters /\ masters[masterid].active,
     changes |-> 0, cascades |-> 0, events |-> 0, done |-> FALSE, failed |-> FALSE,
     force |-> FALSE, now |-> None, too_old |-> None, seen |-> <<>>, tried |-> <<>>,
     inactive |-> {}, ran |-> <<>>, raised |-> "", inTransition |-> FALSE]
\* the record of the caller's call, closed when the method has returned
Closed(hist, l, newpc) ==
    IF newpc = "idle" THEN [hist EXCEPT ![l.h].done = TRUE] ELSE hist
Call(fn, arg, ret) == [fn |-> fn, arg |-> arg, ret |-> ret]
Counted(tr, masterid, changed) ==
    IF changed THEN [tr EXCEPT ![masterid] = @ + 1] ELSE tr
Bit(b) == IF b THEN 1 ELSE 0
\* The store before and after a run of the housekeeping is recorded for the
\* runs during which no other caller is inside a method.
Alone(c) == \A d \in Callers \ {c} : pc[d] = "idle"
NoSnapshots == [c \in Callers |-> <<>>]

\* ----------------------------------------------------------------- actions
\* masterActive: setMasterState(active=True), then the branch on its result
masterActive(c, name, masterid) ==
    /\ pc[c] = "idle"
    /\ ghost.ops < MaxOps
    /\ LET activated == setMasterStateChanged(masters, masterid, TRUE)
           l == [IdleLoc EXCEPT !.op = "masterActive", !.masterid = masterid,
                                !.name = name, !.evt = "started",
                                !.todo = ActiveBranch(activated),
                                !.h = Len(ghost.hist) + 1]
           rec == [HistRec(c, "masterActive", masterid) EXCEPT !.changes = Bit(activated)]
       IN /\ masters' = setMasterStateStore(masters, masterid, TRUE, now)
          /\ pc' = [pc EXCEPT ![c] = TodoPc(l)]
          /\ loc' = [loc EXCEPT ![c] = Settle(l)]
          /\ ghost' = [ghost EXCEPT !.ops = @ + 1, !.pre = NoSnapshots,
                                    !.hist = Closed(Append(@, rec), l, TodoPc(l))]
    /\ calls' = [calls EXCEPT ![c] = <<>>]
    /\ UNCHANGED <<debug, builds, steps, logs, buildrequests, now, events>>

\* masterStopped: setMasterState(active=False), then the branch on its result
masterStopped(c, name, masterid) ==
    /\ pc[c] = "idle"
    /\ ghost.ops < MaxOps
    /\ LET deactivated == setMasterStateChanged(masters, masterid, FALSE)
           l == [IdleLoc EXCEPT !.op = "masterStopped", !.masterid = masterid,
                                !.name = name, !.evt = "stopped",
                                !.todo = StoppedBranch(deactivated),
                                !.h = Len(ghost.hist) + 1]
           rec == [HistRec(c, "masterStopped", masterid) EXCEPT !.changes = Bit(deactivated)]
       IN /\ masters' = setMasterStateStore(masters, masterid, FALSE, now)
          /\ pc' = [pc EXCEPT ![c] = TodoPc(l)]
          /\ loc' = [loc EXCEPT ![c] = Settle(l)]
          /\ ghost' = [ghost EXCEPT !.ops = @ + 1, !.pre = NoSnapshots,
                                    !.transitions = Counted(@, masterid, deactivated),
                                    !.hist = Closed(Append(@, rec), l, TodoPc(l))]
    /\ calls' = [calls EXCEPT ![c] = <<>>]
    /\ UNCHANGED <<debug, builds, steps, logs, buildrequests, now, events>>

\* expireMasters, up to its first yield: the cutoff is computed from the clock
expireMasters(c, forceHouseKeeping) ==
    /\ pc[c] = "idle"
    /\ ghost.ops < MaxOps
    /\ LET l == [IdleLoc EXCEPT !.op = "expireMasters", !.force = forceHouseKeeping,
                                !.too_old = TooOld(now), !.evt = "stopped",
                                !.h = Len(ghost.hist) + 1]
           rec == [HistRec(c, "expireMasters", None) EXCEPT !.too_old = TooOld(now),
                                                           !.now = now,
                                                           !.force = forceHouseKeeping]
       IN /\ pc' = [pc EXCEPT ![c] = "getMasters"]
          /\ loc' = [loc EXCEPT ![c] = l]
          /\ ghost' = [ghost EXCEPT !.ops = @ + 1, !.pre = NoSnapshots,
                                    !.hist = Append(@, rec)]
    /\ calls' = [calls EXCEPT ![c] = <<>>]
    /\ UNCHANGED <<debug, masters, builds, steps, logs, buildrequests, now, events>>

\* expireMasters: getMasters returns; the loop skips the masters seen recently
expireGetMasters(c) ==
    /\ pc[c] = "getMasters"
    /\ LET seen == getMasters(masters)
           l == [loc[c] EXCEPT !.mlist = ExpiredOf(seen, loc[c].too_old)]
       IN /\ pc' = [pc EXCEPT ![c] = TodoPc(l)]
          /\ loc' = [loc EXCEPT ![c] = Settle(l)]
          /\ ghost' = [ghost EXCEPT
                         !.hist = Closed([@ EXCEPT ![l.h].seen = seen,
                                                   ![l.h].inactive =
                                                       IF l.force /\ Alone(c) THEN Inactive(masters) ELSE {}],
                                         l, TodoPc(l))]
    /\ UNCHANGED <<debug, masters, builds, steps, logs, buildrequests, now, events, calls>>

\* expireMasters: setMasterState(active=False) for the next expired master
expireSetMasterState(c) ==
    /\ pc[c] = "setState"
    /\ LET m == Head(loc[c].mlist)
           deactivated == setMasterStateChanged(masters, m.id, FALSE)
           l == [loc[c] EXCEPT !.mlist = Tail(@), !.masterid = m.id, !.name = m.name,
                               !.todo = ExpireBranch(deactivated, loc[c].force)]
       IN /\ masters' = setMasterStateStore(masters, m.id, FALSE, now)
          /\ pc' = [pc EXCEPT ![c] = TodoPc(l)]
          /\ loc' = [loc EXCEPT ![c] = Settle(l)]
          /\ ghost' = [ghost EXCEPT
                         !.transitions = Counted(@, m.id, deactivated),
                         !.hist = Closed([@ EXCEPT ![l.h].tried = Append(@, m.id),
                                                   ![l.h].changes = @ + Bit(deactivated)],
                                         l, TodoPc(l))]
    /\ calls' = [calls EXCEPT ![c] = <<>>]
    /\ UNCHANGED <<debug, builds, steps, logs, buildrequests, now, events>>

\* _masterDeactivatedHousekeeping is entered: log.msg("doing housekeeping ...")
housekeeping(c) ==
    /\ pc[c] = "housekeeping"
    /\ LET l == [loc[c] EXCEPT !.todo = Tail(@), !.stages = HousekeepingStages]
       IN /\ pc' = [pc EXCEPT ![c] = StagePc(l)]
          /\ loc' = [loc EXCEPT ![c] = l]
          /\ ghost' = [ghost EXCEPT !.pre[c] = IF Alone(c) THEN store ELSE <<>>,
                                    !.hist[l.h].cascades = @ + 1,
                                    !.hist[l.h].ran = Append(@, l.masterid)]
    /\ calls' = [calls EXCEPT ![c] = <<>>]
    /\ UNCHANGED <<debug, masters, builds, steps, logs, buildrequests, now, events>>

\* rtypes.<observer>._masterDeactivated(masterid) returns
notifyObserver(c) ==
    /\ pc[c] = "notify"
    /\ LET l == [loc[c] EXCEPT !.stages = Tail(@)]
       IN /\ pc' = [pc EXCEPT ![c] = StagePc(l)]
          /\ loc' = [loc EXCEPT ![c] = l]
          /\ calls' = [calls EXCEPT ![c] =
                         Append(@, Call(Head(loc[c].stages), l.masterid, <<>>))]
    /\ UNCHANGED <<debug, masters, builds, steps, logs, buildrequests, now, events, ghost>>

\* a loop of the builds stage moves on
Moved(c, l, next) ==
    LET l2 == IF next = "stageDone" THEN [l EXCEPT !.stages = Tail(@)] ELSE l
    IN /\ pc' = [pc EXCEPT ![c] = LoopPc(next, l2)]
       /\ loc' = [loc EXCEPT ![c] = l2]

getBuilds(c) ==
    /\ pc[c] = "getBuilds"
    /\ LET l == [loc[c] EXCEPT !.blist = BuildsQuery(builds, loc[c].masterid)]
       IN /\ Moved(c, l, AfterGetBuilds(l.blist))
          /\ calls' = [calls EXCEPT ![c] = Append(@, Call("getBuilds", l.masterid, l.blist))]
    /\ UNCHANGED <<debug, masters, builds, steps, logs, buildrequests, now, events, ghost>>

getSteps(c) ==
    /\ pc[c] = "getSteps"
    /\ LET b == Head(loc[c].blist)
           l == [loc[c] EXCEPT !.slist = StepsQuery(steps, b)]
       IN /\ Moved(c, l, AfterGetSteps(l.slist))
          /\ calls' = [calls EXCEPT ![c] = Append(@, Call("getSteps", b, l.slist))]
    /\ UNCHANGED <<debug, masters, builds, steps, logs, buildrequests, now, events, ghost>>

getLogs(c) ==
    /\ pc[c] = "getLogs"
    /\ LET s == Head(loc[c].slist)
           l == [loc[c] EXCEPT !.llist = LogsQuery(logs, s)]
       IN /\ Moved(c, l, AfterGetLogs(l.llist))
          /\ calls' = [calls EXCEPT ![c] = Append(@, Call("getLogs", s, l.llist))]
    /\ UNCHANGED <<debug, masters, builds, steps, logs, buildrequests, now, events, ghost>>

updatesFinishLog(c) ==
    /\ pc[c] = "finishLog"
    /\ LET g == Head(loc[c].llist)
           l == [loc[c] EXCEPT !.llist = Tail(@)]
       IN /\ logs' = finishLog(logs, g)
          /\ Moved(c, l, AfterFinishLog(l.llist))
          /\ calls' = [calls EXCEPT ![c] = Append(@, Call("finishLog", g, <<>>))]
    /\ UNCHANGED <<debug, masters, builds, steps, buildrequests, now, events, ghost>>

updatesFinishStep(c) ==
    /\ pc[c] = "finishStep"
    /\ LET s == Head(loc[c].slist)
           l == [loc[c] EXCEPT !.slist = Tail(@), !.llist = <<>>]
       IN /\ steps' = finishStep(steps, s, StepResults, StepHidden)
          /\ Moved(c, l, AfterFinishStep(l.slist))
          /\ calls' = [calls EXCEPT ![c] = Append(@, Call("finishStep", s, <<>>))]
    /\ UNCHANGED <<debug, masters, builds, logs, buildrequests, now, events, ghost>>

updatesFinishBuild(c) ==
    /\ pc[c] = "finishBuild"
    /\ LET b == Head(loc[c].blist)
           l == [loc[c] EXCEPT !.blist = Tail(@), !.slist = <<>>, !.llist = <<>>]
       IN /\ builds' = finishBuild(builds, b, BuildResults)
          /\ Moved(c, l, AfterFinishBuild(l.blist))
          /\ calls' = [calls EXCEPT ![c] = Append(@, Call("finishBuild", b, <<>>))]
    /\ UNCHANGED <<debug, masters, steps, logs, buildrequests, now, events, ghost>>

getBuildRequests(c) ==
    /\ pc[c] = "getRequests"
    /\ LET l == [loc[c] EXCEPT !.brids = RequestsQuery(buildrequests, loc[c].masterid)]
       IN /\ pc' = [pc EXCEPT ![c] = "unclaim"]
          /\ loc' = [loc EXCEPT ![c] = l]
          /\ calls' = [calls EXCEPT ![c] =
                         Append(@, Call("getBuildRequests", l.masterid, l.brids))]
    /\ UNCHANGED <<debug, masters, builds, steps, logs, buildrequests, now, events, ghost>>

unclaim(c) ==
    /\ pc[c] = "unclaim"
    /\ LET l == [loc[c] EXCEPT !.stages = Tail(@), !.brids = {}]
       IN /\ buildrequests' = unclaimBuildRequests(buildrequests, loc[c].brids)
          /\ pc' = [pc EXCEPT ![c] = StagePc(l)]
          /\ loc' = [loc EXCEPT ![c] = l]
          /\ calls' = [calls EXCEPT ![c] =
                         Append(@, Call("unclaimBuildRequests", loc[c].brids, <<>>))]
    /\ UNCHANGED <<debug, masters, builds, steps, logs, now, events, ghost>>

\* _masterDeactivatedHousekeeping returns to _masterDeactivated or expireMasters
housekeepingReturns(c) ==
    /\ pc[c] = "hkReturn"
    /\ LET l == loc[c]
           rec == [caller |-> c, masterid |-> l.masterid, pre |-> ghost.pre[c],
                   post |-> IF ghost.pre[c] # <<>> THEN store ELSE <<>>,
                   calls |-> calls[c], failed |-> FALSE]
       IN /\ pc' = [pc EXCEPT ![c] = TodoPc(l)]
          /\ loc' = [loc EXCEPT ![c] = Settle(l)]
          /\ ghost' = [ghost EXCEPT !.cascades = Append(@, rec),
                                    !.pre[c] = <<>>,
                                    !.hist = Closed(@, l, TodoPc(l))]
          /\ calls' = [calls EXCEPT ![c] = IF TodoPc(l) = "event" THEN @ ELSE <<>>]
    /\ UNCHANGED <<debug, masters, builds, steps, logs, buildrequests, now, events>>

\* produceEvent({masterid, name, active}, 'started' | 'stopped')
produceEvent(c) ==
    /\ pc[c] = "event"
    /\ LET l == [loc[c] EXCEPT !.todo = Tail(@)]
           e == [event |-> l.evt, masterid |-> l.masterid, name |-> l.name,
                 active |-> l.evt = "started"]
       IN /\ events' = Append(events, e)
          /\ pc' = [pc EXCEPT ![c] = TodoPc(l)]
          /\ loc' = [loc EXCEPT ![c] = Settle(l)]
          /\ ghost' = [ghost EXCEPT !.evcalls = Append(@, calls[c]),
                                    !.hist = Closed([@ EXCEPT ![l.h].events = @ + 1],
                                                    l, TodoPc(l))]
          /\ calls' = [calls EXCEPT ![c] = IF TodoPc(l) = "housekeeping" THEN @ ELSE <<>>]
    /\ UNCHANGED <<debug, masters, builds, steps, logs, buildrequests, now>>

\* the reactor's clock advances
Tick ==
    /\ ghost.ticks < MaxTicks
    /\ now' = now + 1
    /\ ghost' = [ghost EXCEPT !.ticks = @ + 1]
    /\ UNCHANGED <<debug, masters, builds, steps, logs, buildrequests, events, pc, loc, calls>>

\* an id that no row of the masters table has
UnknownId == NumMasters + 1
\* a master calls masterActive and masterStopped with its own name
NamesOf(m) == {MasterName(m)}
\* the callers that start calls when there is one call at a time
SeqCallers == {"c1"}
AllIdle == \A c \in Callers : pc[c] = "idle"

Begin(c) ==
    \/ \E m \in MasterIds : \E n \in NamesOf(m) : masterActive(c, n, m)
    \/ \E m \in MasterIds : \E n \in NamesOf(m) : masterStopped(c, n, m)
    \/ \E f \in BOOLEAN : expireMasters(c, f)

\* masterActive or masterStopped is called with an id no master has
BeginUnknown(c) ==
    \/ \E n \in NamesOf(UnknownId) : masterActive(c, n, UnknownId)
    \/ \E n \in NamesOf(UnknownId) : masterStopped(c, n, UnknownId)

Proceed(c) ==
    \/ expireGetMasters(c)
    \/ expireSetMasterState(c)
    \/ housekeeping(c)
    \/ notifyObserver(c)
    \/ getBuilds(c)
    \/ getSteps(c)
    \/ getLogs(c)
    \/ updatesFinishLog(c)
    \/ updatesFinishStep(c)
    \/ updatesFinishBuild(c)
    \/ getBuildRequests(c)
    \/ unclaim(c)
    \/ housekeepingReturns(c)
    \/ produceEvent(c)

\* an observer's _masterDeactivated fails: nothing catches the exception, so
\* it leaves _masterDeactivatedHousekeeping and the update method that ran it
notifyFails(c) ==
    /\ pc[c] = "notify"
    /\ LET l == loc[c]
           rec == [caller |-> c, masterid |-> l.masterid, pre |-> ghost.pre[c],
                   post |-> IF ghost.pre[c] # <<>> THEN store ELSE <<>>, failed |-> TRUE,
                   calls |-> Append(calls[c], Call(Head(l.stages), l.masterid, <<"raised">>))]
       IN /\ pc' = [pc EXCEPT ![c] = "idle"]
          /\ loc' = [loc EXCEPT ![c] = IdleLoc]
          /\ ghost' = [ghost EXCEPT !.cascades = Append(@, rec),
                                    !.pre[c] = <<>>,
                                    !.hist[l.h].failed = TRUE,
                                    !.hist[l.h].done = TRUE]
          /\ calls' = [calls EXCEPT ![c] = <<>>]
    /\ UNCHANGED <<debug, masters, builds, steps, logs, buildrequests, now, events>>

\* the places where a caller inside the housekeeping waits for the store
CascadeStorePcs ==
    {"getBuilds", "getSteps", "getLogs", "finishLog", "finishStep", "finishBuild",
     "getRequests", "unclaim"}
Unwound_EventKept(todo) == SelectSeq(todo, LAMBDA x : x = "event")
\* what is left to do of _masterDeactivated and of the update method when a
\* call they yield raises: none of them catches, so nothing
Unwound(todo) == <<>>

\* a store call of the housekeeping raises (it has changed nothing): the
\* exception leaves _masterDeactivatedHousekeeping, _masterDeactivated and
\* the update method, the loop of expireMasters included
storeFails(c) ==
    /\ pc[c] \in CascadeStorePcs
    /\ ghost.fails < MaxFailures
    /\ LET l0 == loc[c]
           l == [l0 EXCEPT !.todo = Unwound(@), !.mlist = <<>>, !.stages = <<>>,
                           !.blist = <<>>, !.slist = <<>>, !.llist = <<>>, !.brids = {}]
           rec == [caller |-> c, masterid |-> l0.masterid, pre |-> ghost.pre[c],
                   post |-> IF ghost.pre[c] # <<>> THEN store ELSE <<>>, failed |-> TRUE,
                   calls |-> Append(calls[c], Call("raised", pc[c], <<>>))]
       IN /\ pc' = [pc EXCEPT ![c] = TodoPc(l)]
          /\ loc' = [loc EXCEPT ![c] = Settle(l)]
          /\ ghost' = [ghost EXCEPT
                         !.fails = @ + 1,
                         !.broken = @ \cup {l0.masterid},
                         !.cascades = Append(@, rec),
                         !.pre[c] = <<>>,
                         !.hist = Closed([@ EXCEPT
                                            ![l.h].failed = TRUE,
                                            ![l.h].raised = pc[c],
                                            ![l.h].inTransition = "event" \in Range(l0.todo)],
                                         l, TodoPc(l))]
          /\ calls' = [calls EXCEPT ![c] = <<>>]
    /\ UNCHANGED <<debug, masters, builds, steps, logs, buildrequests, now, events>>

\* concurrent callers, at one moment of the clock
Next == \E c \in Callers : Begin(c) \/ Proceed(c)
Spec == InitConc /\ [][Next]_vars

\* one call at a time: a method is called only when no other is running
NextSeq == Tick \/ \E c \in SeqCallers : (AllIdle /\ Begin(c)) \/ Proceed(c)
SpecSeq == Init /\ [][NextSeq]_vars

\* one call at a time, with the irregular cases: observers and store calls
\* that fail, and calls with an id no master has
NextFail ==
    \/ NextSeq
    \/ \E c \in SeqCallers :
        \/ AllIdle /\ BeginUnknown(c)
        \/ notifyFails(c)
        \/ storeFails(c)
SpecFail == InitOpen /\ [][NextFail]_vars

\* the bookkeeping of the calls that have returned is dropped; the state of
\* the program is not touched
Forget ==
    /\ AllIdle
    /\ ghost.ops > 0
    /\ ghost' = [ghost EXCEPT !.ops = 0, !.hist = <<>>, !.cascades = <<>>]
    /\ UNCHANGED <<debug, masters, builds, steps, logs, buildrequests, now, events, pc, loc, calls>>

\* a forced scan is started
ForcedScan(c) == AllIdle /\ ghost.ops = 0 /\ expireMasters(c, TRUE)
\* one call at a time, again and again: masterStopped and scans, forced or
\* not, with store calls that may fail MaxFailures times; no master checks in
NextLive ==
    \/ Tick
    \/ Forget
    \/ \E c \in SeqCallers :
        \/ ForcedScan(c)
        \/ AllIdle /\ ghost.ops = 0 /\ expireMasters(c, FALSE)
        \/ \E m \in MasterIds : \E n \in NamesOf(m) :
                AllIdle /\ ghost.ops = 0 /\ masterStopped(c, n, m)
        \/ Proceed(c)
        \/ storeFails(c)
\* the clock advances, a started method runs on, forced scans keep being started
Fairness ==
    /\ WF_vars(Tick)
    /\ WF_vars(Forget)
    /\ \A c \in SeqCallers : WF_vars(Proceed(c)) /\ SF_vars(ForcedScan(c))
SpecLive == InitOpen /\ [][NextLive]_vars /\ Fairness


\* --------------------------------------------- DebugServices (process/debug.py)
\* the values of new_config.manhole: a manhole service, told apart by `!=`,
\* or None
Manholes == {1, 2}
ConfigManholes == Manholes \cup {None}

\* reconfigServiceWithBuildbotConfig: where the method is suspended first
AfterCompare(new, manhole) ==
    IF new # manhole
    THEN IF manhole # None THEN "disown"
         ELSE IF new # None THEN "attach"
         ELSE "chain"
    ELSE "chain"
\* `if new_config.manhole: self.manhole = new_config.manhole; yield setServiceParent`
AfterDisown(new) == IF new # None THEN "attach" ELSE "chain"

\* reconfigServiceWithBuildbotConfig is called, up to its first yield
reconfigServiceWithBuildbotConfig(new) ==
    /\ debug.pc = "idle"
    /\ debug.calls < MaxDebugCalls
    /\ debug' = [debug EXCEPT
                    !.calls = @ + 1, !.last = "reconfig", !.new = new,
                    !.old = debug.manhole, !.did = <<>>,
                    !.manhole = IF AfterCompare(new, debug.manhole) = "attach" THEN new ELSE @,
                    !.pc = AfterCompare(new, debug.manhole)]
    /\ UNCHANGED masterVars

\* self.manhole.disownServiceParent() returns; self.manhole = None, and the
\* new manhole, if any, is taken
disownServiceParent ==
    /\ debug.pc = "disown"
    /\ debug' = [debug EXCEPT
                    !.children = @ \ {debug.manhole},
                    !.did = Append(@, <<"disown", debug.manhole>>),
                    !.manhole = IF AfterDisown(debug.new) = "attach" THEN debug.new ELSE None,
                    !.pc = AfterDisown(debug.new)]
    /\ UNCHANGED masterVars

\* self.manhole.setServiceParent(self) returns
setServiceParent ==
    /\ debug.pc = "attach"
    /\ debug' = [debug EXCEPT
                    !.children = @ \cup {debug.manhole},
                    !.did = Append(@, <<"attach", debug.manhole>>),
                    !.pc = "chain"]
    /\ UNCHANGED masterVars

\* super().reconfigServiceWithBuildbotConfig(new_config) returns
reconfigChainUp ==
    /\ debug.pc = "chain"
    /\ debug' = [debug EXCEPT !.pc = "idle"]
    /\ UNCHANGED masterVars

\* stopService is called: super().stopService() stops the child services
stopService ==
    /\ debug.pc = "idle"
    /\ debug.calls < MaxDebugCalls
    /\ debug' = [debug EXCEPT !.calls = @ + 1, !.last = "stop", !.did = <<>>, !.pc = "stop"]
    /\ UNCHANGED masterVars

\* super().stopService() returns (the children are stopped, and are still
\* children); `if self.manhole: self.manhole = None`
stopServiceReturns ==
    /\ debug.pc = "stop"
    /\ debug' = [debug EXCEPT !.manhole = IF @ # None THEN None ELSE @, !.pc = "idle"]
    /\ UNCHANGED masterVars

InitDebug == InitOpen /\ \A m \in MasterIds : masters[m].active
NextDebug ==
    \/ \E new \in ConfigManholes : reconfigServiceWithBuildbotConfig(new)
    \/ disownServiceParent
    \/ setServiceParent
    \/ reconfigChainUp
    \/ stopService
    \/ stopServiceReturns
SpecDebug == InitDebug /\ [][NextDebug]_vars


\* ================================================================ properties
Hist == ghost.hist
Cascades == ghost.cascades
Published(m) ==
    Cardinality({i \in 1..Len(events) :
                    events[i].event = "stopped" /\ events[i].masterid = m})

\* C1: two masterStopped calls in a row for a master that was active at the
\* first, with nothing but the clock in between: the first changes the state,
\* the second does not, and the housekeeping runs once over the two calls.
StopTwice(i) ==
    /\ i + 1 <= Len(Hist)
    /\ Hist[i].op = "masterStopped" /\ Hist[i + 1].op = "masterStopped"
    /\ Hist[i].masterid = Hist[i + 1].masterid
    /\ Hist[i].wasActive
    /\ Hist[i].done /\ Hist[i + 1].done
C1_StopIdempotent ==
    \A i \in 1..Len(Hist) :
        StopTwice(i) =>
            /\ Hist[i].changes = 1
            /\ Hist[i + 1].changes = 0
            /\ Hist[i].cascades + Hist[i + 1].cascades = 1
C1_Witness == \E i \in 1..Len(Hist) : StopTwice(i)


\* C2: every transition of a master from active to inactive has exactly one
\* caller that saw setMasterState(active=False) report it: that caller is
\* either still on its way to the 'stopped' event or has published it, so the
\* cascade is triggered once and one 'stopped' event is published per
\* transition, however masterStopped and expireMasters interleave.
Triggered(m) ==
    {c \in Callers : /\ loc[c].op \in {"masterStopped", "expireMasters"}
                     /\ loc[c].masterid = m
                     /\ "event" \in Range(loc[c].todo)}
C2_OneTriggerPerTransition ==
    \A m \in MasterIds :
        ghost.transitions[m] = Cardinality(Triggered(m)) + Published(m)
\* a scan that is not forced and a masterStopped raced for master m: the
\* scan had read m as expired, masterStopped made the transition, and the
\* scan's setMasterState for m then reported no change
C2_Witness ==
    \E i, j \in 1..Len(Hist) : \E m \in MasterIds :
        /\ i < j
        /\ Hist[i].op = "expireMasters" /\ ~Hist[i].force
        /\ Hist[j].op = "masterStopped" /\ Hist[j].masterid = m
        /\ Hist[j].changes = 1
        /\ \E k \in 1..Len(Hist[i].tried) : Hist[i].tried[k] = m
        /\ Hist[i].changes = 0
        /\ ghost.transitions[m] = 1 /\ Published(m) = 1

\* C3: a call publishes at most as many 'stopped' events as its
\* setMasterState(active=False) calls reported a transition: none when they
\* all reported no change, also when the scan is forced and runs the
\* housekeeping for a master that was inactive already.
Stops(h) == h.op \in {"masterStopped", "expireMasters"}
C3_EventsOnlyForTransitions ==
    /\ \A i \in 1..Len(Hist) : Stops(Hist[i]) => Hist[i].events <= Hist[i].changes
    /\ \A m \in MasterIds : Published(m) <= ghost.transitions[m]
\* a forced scan has run the housekeeping without a transition and returned
C3_Witness ==
    \E i \in 1..Len(Hist) :
        /\ Hist[i].op = "expireMasters" /\ Hist[i].force /\ Hist[i].done
        /\ Hist[i].changes = 0 /\ Hist[i].cascades > 0 /\ Hist[i].events = 0

\* C4: when a 'stopped' event for master m is published, the caller has,
\* since its setMasterState, notified the four observers for m, queried the
\* incomplete builds of m and called finishBuild for each of them, and issued
\* the unclaim of the build requests.
HasCall(tr, fn, arg) == \E k \in 1..Len(tr) : tr[k].fn = fn /\ tr[k].arg = arg
CascadeComplete(tr, m) ==
    /\ \A o \in Range(Observers) : HasCall(tr, o, m)
    /\ \E k \in 1..Len(tr) :
        /\ tr[k].fn = "getBuilds" /\ tr[k].arg = m
        /\ \A b \in Range(tr[k].ret) :
            \E j \in (k + 1)..Len(tr) : tr[j].fn = "finishBuild" /\ tr[j].arg = b
    /\ \E k \in 1..Len(tr) : tr[k].fn = "unclaimBuildRequests"
C4_EventAfterCascade ==
    \A i \in 1..Len(events) :
        events[i].event = "stopped" =>
            CascadeComplete(ghost.evcalls[i], events[i].masterid)
C4_Witness ==
    \E i \in 1..Len(events) :
        /\ events[i].event = "stopped"
        /\ \E k \in 1..Len(ghost.evcalls[i]) :
            ghost.evcalls[i][k].fn = "getBuilds" /\ ghost.evcalls[i][k].ret # <<>>

\* C5: in the calls of one run of the housekeeping, finishStep for a step
\* comes after finishLog for every log its logs query returned, and
\* finishBuild for a build after finishStep for every step its steps query
\* returned; when finishStep is about to be called, none of the logs that
\* query returned is open.
Between(tr, i, j, fn, arg) ==
    \E k \in (i + 1)..(j - 1) : tr[k].fn = fn /\ tr[k].arg = arg
OrderedCalls(tr) ==
    /\ \A j \in 1..Len(tr) :
        tr[j].fn = "finishStep" =>
            \E i \in 1..(j - 1) :
                /\ tr[i].fn = "getLogs" /\ tr[i].arg = tr[j].arg
                /\ \A g \in Range(tr[i].ret) : Between(tr, i, j, "finishLog", g)
    /\ \A j \in 1..Len(tr) :
        tr[j].fn = "finishBuild" =>
            \E i \in 1..(j - 1) :
                /\ tr[i].fn = "getSteps" /\ tr[i].arg = tr[j].arg
                /\ \A t \in Range(tr[i].ret) : Between(tr, i, j, "finishStep", t)
LogsClosed(c) ==
    pc[c] = "finishStep" =>
        \A k \in 1..Len(calls[c]) :
            (calls[c][k].fn = "getLogs" /\ calls[c][k].arg = Head(loc[c].slist)) =>
                \A g \in Range(calls[c][k].ret) : logs[g].complete
C5_LogsBeforeStepBeforeBuild ==
    /\ \A c \in Callers : OrderedCalls(calls[c]) /\ LogsClosed(c)
    /\ \A i \in 1..Len(Cascades) : OrderedCalls(Cascades[i].calls)
\* a run has finished a build with two open steps, one of them with two open logs
C5_Witness ==
    \E i \in 1..Len(Cascades) :
        LET tr == Cascades[i].calls IN
        /\ \E k \in 1..Len(tr) : tr[k].fn = "getSteps" /\ Len(tr[k].ret) >= 2
        /\ \E k \in 1..Len(tr) : tr[k].fn = "getLogs" /\ Len(tr[k].ret) >= 2


\* a run of the housekeeping that returned, recorded with the store before
\* and after it (no other caller was inside a method meanwhile)
Quiet(r) == r.pre # <<>> /\ ~r.failed
OfMaster(bs, b, m) == bs[b].masterid = m /\ ~bs[b].complete

\* C6: after a run of the housekeeping for master m, with no other writer, no
\* build of m is incomplete; every build of m that was incomplete has results
\* RETRY, also one without open steps; every step of such a build that had no
\* results has results RETRY and hidden FALSE; a step that had results is
\* unchanged.
C6_NoOpenBuildsAfterCascade ==
    \A i \in 1..Len(Cascades) :
        LET r == Cascades[i]
            m == r.masterid
        IN Quiet(r) =>
            /\ \A b \in BuildIds : r.post[1][b].masterid = m => r.post[1][b].complete
            /\ \A b \in BuildIds :
                OfMaster(r.pre[1], b, m) => r.post[1][b].results = RETRY
            /\ \A t \in StepIds :
                IF r.pre[2][t].results = NoResult
                THEN OfMaster(r.pre[1], r.pre[2][t].buildid, m) =>
                        (r.post[2][t].results = RETRY /\ r.post[2][t].hidden = FALSE)
                ELSE r.post[2][t] = r.pre[2][t]
\* the run found a build of m without open steps and a build of m with an
\* open step and a finished step
C6_Witness ==
    \E i \in 1..Len(Cascades) :
        LET r == Cascades[i]
            m == r.masterid
        IN /\ Quiet(r)
           /\ \E b \in BuildIds :
                /\ OfMaster(r.pre[1], b, m)
                /\ \A t \in StepIds : r.pre[2][t].buildid = b => r.pre[2][t].results # NoResult
           /\ \E b \in BuildIds :
                /\ OfMaster(r.pre[1], b, m)
                /\ \E t \in StepIds : r.pre[2][t].buildid = b /\ r.pre[2][t].results = NoResult
                /\ \E t \in StepIds : r.pre[2][t].buildid = b /\ r.pre[2][t].results # NoResult

\* C7: after a run of the housekeeping for master m, with no other writer,
\* every request that was incomplete and claimed by m is unclaimed, and every
\* other request (claimed by another master, unclaimed, or complete) is as it
\* was.
C7_RequestsReleased ==
    \A i \in 1..Len(Cascades) :
        LET r == Cascades[i]
            m == r.masterid
        IN Quiet(r) =>
            \A q \in RequestIds :
                IF r.pre[4][q].claimed = m /\ ~r.pre[4][q].complete
                THEN r.post[4][q] = [r.pre[4][q] EXCEPT !.claimed = None]
                ELSE r.post[4][q] = r.pre[4][q]
\* the run released a request of m while another master held an open request
C7_Witness ==
    \E i \in 1..Len(Cascades) :
        LET r == Cascades[i]
            m == r.masterid
        IN /\ Quiet(r)
           /\ \E q \in RequestIds : r.pre[4][q].claimed = m /\ ~r.pre[4][q].complete
           /\ \E q \in RequestIds :
                r.pre[4][q].claimed \notin {m, None} /\ ~r.pre[4][q].complete

\* C8: when a run of the housekeeping for master m starts from the store the
\* previous run for m left, it calls no finishLog, finishStep or finishBuild,
\* unclaims no request and leaves the store as it found it.
Rerun(i) ==
    /\ i + 1 <= Len(Cascades)
    /\ Quiet(Cascades[i]) /\ Quiet(Cascades[i + 1])
    /\ Cascades[i].masterid = Cascades[i + 1].masterid
    /\ Cascades[i].post = Cascades[i + 1].pre
Mutating(call) ==
    \/ call.fn \in {"finishLog", "finishStep", "finishBuild"}
    \/ call.fn = "unclaimBuildRequests" /\ call.arg # {}
C8_CascadeIdempotent ==
    \A i \in 1..Len(Cascades) :
        Rerun(i) =>
            LET r == Cascades[i + 1]
            IN /\ r.post = r.pre
               /\ \A k \in 1..Len(r.calls) : ~Mutating(r.calls[k])
\* the first of the two runs finished something
C8_Witness ==
    \E i \in 1..Len(Cascades) :
        /\ Rerun(i)
        /\ Cascades[i].pre # Cascades[i].post
        /\ \E k \in 1..Len(Cascades[i].calls) : Cascades[i].calls[k].fn = "finishBuild"

\* C9: a scan computes its cutoff as now - 60 * EXPIRE_MINUTES; it calls
\* setMasterState for no master it read with last_active >= cutoff, so not
\* for one at the cutoff exactly, and once it has returned it has called it
\* for every master it read with last_active < cutoff or unset, so for one a
\* second before the cutoff.
Scan(h) == h.op = "expireMasters" /\ h.seen # <<>>
Tried(h, m) == \E k \in 1..Len(h.tried) : h.tried[k] = m
C9_ExpiryBoundary ==
    \A i \in 1..Len(Hist) :
        LET h == Hist[i] IN
        Scan(h) =>
            /\ h.too_old = h.now - 60 * EXPIRE_MINUTES
            /\ \A k \in 1..Len(h.seen) :
                LET la == h.seen[k].last_active IN
                /\ (la # None /\ la >= h.too_old) => ~Tried(h, h.seen[k].id)
                /\ (h.done /\ (la = None \/ la < h.too_old)) => Tried(h, h.seen[k].id)
\* one scan read a master at the cutoff exactly, another read one a second
\* before the cutoff
C9_Witness ==
    \E i, j \in 1..Len(Hist) :
        /\ Scan(Hist[i]) /\ Hist[i].done
        /\ \E k \in 1..Len(Hist[i].seen) : Hist[i].seen[k].last_active = Hist[i].too_old
        /\ Scan(Hist[j]) /\ Hist[j].done
        /\ \E k \in 1..Len(Hist[j].seen) :
            /\ Hist[j].seen[k].last_active = Hist[j].too_old - 1
            /\ Tried(Hist[j], Hist[j].seen[k].id)

\* C10: when an observer's _masterDeactivated fails in a run of the
\* housekeeping for master m, the run still notifies the four observers,
\* finishes the builds of m and issues the unclaim.
ObserverRaised(r) == r.failed /\ r.calls[Len(r.calls)].fn \in Range(Observers)
C10_ObserverFailureTolerated ==
    \A i \in 1..Len(Cascades) :
        ObserverRaised(Cascades[i]) =>
            CascadeComplete(Cascades[i].calls, Cascades[i].masterid)

\* C11: when a store call raises in the cascade that follows a transition of
\* master m to inactive, the call of the update method ends there with the
\* failure, it has published a 'stopped' event for each of its transitions
\* but that one, and m is still inactive when the call has ended.
FailedMaster(h) == IF h.op = "masterStopped" THEN h.masterid ELSE h.tried[Len(h.tried)]
StoreFailure(h) == h.failed /\ h.raised \in CascadeStorePcs /\ h.inTransition
C11_StoreFailureNoEventNoRollback ==
    \A i \in 1..Len(Hist) :
        LET h == Hist[i] IN
        StoreFailure(h) =>
            /\ h.done
            /\ h.events = h.changes - 1
            /\ \A k \in 1..Len(events) :
                    (events[k].event = "stopped" /\ events[k].masterid = FailedMaster(h))
                        => ghost.transitions[FailedMaster(h)] > 1
            /\ (i = Len(Hist) /\ AllIdle) => ~masters[FailedMaster(h)].active
\* a scan has failed in the cascade of its second transition, after it had
\* finished a build there
C11_Witness ==
    \E i \in 1..Len(Hist) : \E j \in 1..Len(Cascades) :
        /\ Hist[i].op = "expireMasters" /\ StoreFailure(Hist[i])
        /\ Hist[i].changes = 2 /\ Hist[i].events = 1
        /\ Cascades[j].failed /\ Cascades[j].masterid = FailedMaster(Hist[i])
        /\ \E k \in 1..Len(Cascades[j].calls) : Cascades[j].calls[k].fn = "finishBuild"

\* C12: a master that is inactive (none becomes active again here) has, after
\* enough forced scans, no incomplete build and no incomplete request claimed
\* by it, also when cascades for it were interrupted by failing store calls;
\* the clock advances, started methods run on, forced scans keep being
\* started and at most MaxFailures store calls fail.
Clean(m) ==
    /\ \A b \in DOMAIN builds : builds[b].masterid = m => builds[b].complete
    /\ \A r \in DOMAIN buildrequests :
        buildrequests[r].claimed = m => buildrequests[r].complete
C12_ForcedScansRepair ==
    \A m \in MasterIds : (~masters[m].active) ~> Clean(m)
\* a master whose cascade a failing store call interrupted is repaired
C12_Witness ==
    \E m \in ghost.broken : ~masters[m].active /\ Clean(m)


\* C13: a forced scan that has returned has run the housekeeping for every
\* master that was inactive when the scan read the masters.
Ran(h, m) == \E k \in 1..Len(h.ran) : h.ran[k] = m
C13_ForcedScanCoversInactive ==
    \A i \in 1..Len(Hist) :
        LET h == Hist[i] IN
        (h.op = "expireMasters" /\ h.force /\ h.done /\ ~h.failed) =>
            \A m \in h.inactive : Ran(h, m)


\* C14: a call of masterActive or masterStopped with an id that no master
\* has returns at once without an error: it reports no transition, enters no
\* housekeeping, publishes no event, and the masters, builds, steps, logs and
\* build requests are as they were before the call.
UnknownCall(h) == h.op \in {"masterActive", "masterStopped"} /\ h.masterid = UnknownId
C14_UnknownIdNoOp ==
    [][\A c \in Callers :
        (pc[c] = "idle" /\ ghost'.ops = ghost.ops + 1
            /\ UnknownCall(ghost'.hist[Len(ghost'.hist)])
            /\ ghost'.hist[Len(ghost'.hist)].caller = c) =>
            LET h == ghost'.hist[Len(ghost'.hist)] IN
            /\ pc'[c] = "idle" /\ h.done /\ ~h.failed
            /\ h.changes = 0 /\ h.cascades = 0 /\ h.events = 0
            /\ events' = events
            /\ masters' = masters /\ store' = store]_vars
\* both methods have been called with the unknown id, the first while a
\* master was active and had incomplete builds
C14_Witness ==
    /\ \E i \in 1..Len(Hist) : Hist[i].op = "masterActive" /\ UnknownCall(Hist[i])
    /\ \E i \in 1..Len(Hist) : Hist[i].op = "masterStopped" /\ UnknownCall(Hist[i])
    /\ \E m \in MasterIds : masters[m].active /\ ~Clean(m)


\* C15: a masterActive call publishes one 'started' event, with the call's
\* masterid and name and active = True, when its setMasterState(active=True)
\* reported a change, and none when it reported none; it never enters the
\* housekeeping.
Started(m) ==
    Cardinality({k \in 1..Len(events) :
                    events[k].event = "started" /\ events[k].masterid = m})
Activations(m) ==
    Cardinality({i \in 1..Len(Hist) :
                    Hist[i].op = "masterActive" /\ Hist[i].masterid = m /\ Hist[i].events = 1})
C15_StartedOnActivation ==
    /\ \A i \in 1..Len(Hist) :
        Hist[i].op = "masterActive" =>
            /\ Hist[i].cascades = 0
            /\ Hist[i].events <= Hist[i].changes
            /\ Hist[i].done => Hist[i].events = Hist[i].changes
    /\ \A c \in Callers : loc[c].op = "masterActive" => pc[c] = "event"
    /\ \A k \in 1..Len(events) :
        events[k].event = "started" =>
            /\ events[k].active = TRUE
            /\ events[k].name = MasterName(events[k].masterid)
    /\ \A m \in MasterIds : Started(m) = Activations(m)
\* one call has activated a master and published, another found its master
\* active and published nothing
C15_Witness ==
    \E i, j \in 1..Len(Hist) :
        /\ Hist[i].op = "masterActive" /\ Hist[i].done
        /\ Hist[i].changes = 1 /\ Hist[i].events = 1
        /\ Hist[j].op = "masterActive" /\ Hist[j].done
        /\ Hist[j].wasActive /\ Hist[j].changes = 0 /\ Hist[j].events = 0


\* C16: in the calls of one run of the housekeeping the observers come in the
\* order worker, builder, scheduler, changesource, all four before the builds
\* query and so before any finishLog, finishStep or finishBuild; the request
\* query and the unclaim come after finishBuild for every build the builds
\* query returned, the unclaim after the request query.
Pos(tr, fn) == CHOOSE k \in 1..Len(tr) : tr[k].fn = fn
ClaimedOrder == <<"worker", "builder", "scheduler", "changesource">>
StageOrder(tr) ==
    /\ \A k \in 1..Len(tr) :
        k <= Len(ClaimedOrder) => tr[k].fn = ClaimedOrder[k]
    /\ \A k \in 1..Len(tr) :
        tr[k].fn \in {"getBuilds", "finishLog", "finishStep", "finishBuild",
                      "getBuildRequests", "unclaimBuildRequests"} => k > Len(ClaimedOrder)
    /\ \A k \in 1..Len(tr) :
        tr[k].fn \in {"getBuildRequests", "unclaimBuildRequests"} =>
            /\ HasCall(tr, "getBuilds", tr[1].arg)
            /\ \A b \in Range(tr[Pos(tr, "getBuilds")].ret) :
                \E j \in 1..(k - 1) : tr[j].fn = "finishBuild" /\ tr[j].arg = b
            /\ \A j \in (k + 1)..Len(tr) :
                tr[j].fn \notin {"finishLog", "finishStep", "finishBuild"}
    /\ \A k \in 1..Len(tr) :
        tr[k].fn = "unclaimBuildRequests" =>
            \E j \in 1..(k - 1) : tr[j].fn = "getBuildRequests"
C16_FixedStageOrder ==
    /\ \A c \in Callers : pc[c] \in CascadeStorePcs \cup {"notify", "hkReturn"} =>
            StageOrder(calls[c])
    /\ \A i \in 1..Len(Cascades) : StageOrder(Cascades[i].calls)
\* a run that finished two builds and released a request has returned
C16_Witness ==
    \E i \in 1..Len(Cascades) :
        LET tr == Cascades[i].calls IN
        /\ Len(SelectSeq(tr, LAMBDA x : x.fn = "finishBuild")) >= 2
        /\ \E k \in 1..Len(tr) : tr[k].fn = "unclaimBuildRequests" /\ tr[k].arg # {}


\* C17: a scan that has ended, with or without a failure in the cascade of
\* one of its masters, has called setMasterState(active=False) for every
\* master it read with last_active unset or earlier than its cutoff.
C17_ScanAttemptsEveryExpired ==
    \A i \in 1..Len(Hist) :
        LET h == Hist[i] IN
        (Scan(h) /\ h.done) =>
            \A k \in 1..Len(h.seen) :
                (h.seen[k].last_active = None \/ h.seen[k].last_active < h.too_old)
                    => Tried(h, h.seen[k].id)


\* C18: whenever a caller's housekeeping for master m calls finishStep or
\* finishBuild, or unclaims requests, the active column of m is False at
\* that moment, however masterActive calls for m interleave.
Finalizes(c) ==
    \/ pc[c] \in {"finishStep", "finishBuild"}
    \/ pc[c] = "unclaim" /\ loc[c].brids # {}
C18_CascadeOnlyWhileInactive ==
    [][\A c \in Callers :
        (Finalizes(c) /\ loc'[c] # loc[c]) => ~masters[loc[c].masterid].active]_vars


\* C19: when no update method is running for master m, the last event
\* published for m, if there is one, carries the active value the masters
\* table holds for m.
Busy(m) ==
    \E c \in Callers :
        pc[c] # "idle" /\ (loc[c].masterid = m \/ loc[c].op = "expireMasters")
EventsOf(m) == SelectSeq(events, LAMBDA e : e.masterid = m)
C19_LastEventMatchesState ==
    \A m \in MasterIds :
        (~Busy(m) /\ EventsOf(m) # <<>>) =>
            EventsOf(m)[Len(EventsOf(m))].active = masters[m].active


\* C20: for DebugServices, one call at a time: after a reconfig has
\* returned, self.manhole is new_config.manhole; at most one manhole is a
\* child service at any time; a reconfig with the manhole it had already has
\* disowned and attached nothing; after stopService has returned,
\* self.manhole is None.
ManholeIsConfig ==
    (debug.pc = "idle" /\ debug.last = "reconfig") => debug.manhole = debug.new
OneChild == Cardinality(debug.children) <= 1
UnchangedUntouched ==
    (debug.last = "reconfig" /\ debug.new = debug.old) => debug.did = <<>>
StoppedCleared ==
    (debug.pc = "idle" /\ debug.last = "stop") => debug.manhole = None
C20_ManholeFollowsConfig ==
    ManholeIsConfig /\ OneChild /\ UnchangedUntouched /\ StoppedCleared

====
